---------------------------- MODULE Spec2Model ----------------------------
(***************************************************************************)
(* The AI-proxy server of DocHelper (src/project/server.js): the lifecycle *)
(* of the shared Groq client (initializeGroq, initializeGroqWithRetry),    *)
(* GET /health, POST /api/suggest and POST /api/format.                    *)
(*                                                                         *)
(* The server is one Node.js process.  A handler runs without interruption *)
(* from one `await` to the next, and each action below is one such         *)
(* uninterrupted segment of the code.  The event loop runs one callback    *)
(* (a turn) at a time and, when the callback returns, every continuation   *)
(* that is ready (`await` of a value that is no pending promise: lines 40, *)
(* 83, 155) before the next callback.  One turn can dispatch several       *)
(* requests: the HTTP parser emits `request` for every request of a chunk  *)
(* it reads (pipelining), and cors() and express.json() pass a request     *)
(* without a body on synchronously.                                        *)
(*                                                                         *)
(* Callers of initializeGroqWithRetry are numbered: 0 is the eager call of *)
(* line 48, 1..NReq are the suggest/format requests in order of arrival.   *)
(***************************************************************************)
EXTENDS Integers, Sequences, FiniteSets

\* Number of suggest/format requests the process serves (bound of the model).
NReq == 2

\* server.js:19
MAX_INITIALIZATION_ATTEMPTS == 3
\* server.js:44, the unit of the linear backoff in ms
BackoffUnit == 1000
\* server.js:102 and server.js:174
MaxTextLength == 32000

Startup == 0
Reqs == 1..NReq
Procs == 0..NReq

\* `let groq;` is undefined until a client is constructed; a constructed
\* client is identified by its construction number.
NoClient == 0

Endpoints == {"suggest", "format"}

VARIABLES
  groq,                    \* line 17: the client handle (NoClient = undefined)
  initializationAttempts,  \* line 18
  apiKey,                  \* process.env.GROQ_API_KEY is set (line 23)
  constructed,             \* history: number of `new Groq(...)` evaluations
  listening,               \* the listen callback of line 248 has run
  turn,                    \* the event loop: "idle" between callbacks,
                           \* "requests" while a turn dispatches requests,
                           \* "drain" while ready continuations run
  pc,                      \* position of every caller / handler
  initOk,                  \* value of initializeGroq() a caller awaits (line 40)
  timer,                   \* ms of the timer set most recently (line 44)
  iters,                   \* loop bodies entered by the caller's retry pass
  text,                    \* `text` read from req.body (lines 93, 165)
  calls,                   \* provider calls issued by the handler run
  sent,                    \* history: responses sent for the request
  last                     \* the response the server sent most recently,
                           \* with what it answers

vars == <<groq, initializationAttempts, apiKey, constructed, listening, turn,
          pc, initOk, timer, iters, text, calls, sent, last>>

-----------------------------------------------------------------------------
(* Values *)

\* req.body.text: undefined (missing) or a string of a given length (a text
\* that is no string is not drawn).  The handlers read only its truthiness
\* and its length.
Unread == [defined |-> FALSE, length |-> 0]
TextLengths == {0, 9, 32000, 32001}
Texts == {Unread} \cup {[defined |-> TRUE, length |-> n] : n \in TextLengths}

\* completion.choices[0]?.message?.content: undefined or a string.
Contents == {[defined |-> FALSE, value |-> ""],
             [defined |-> TRUE, value |-> ""],
             [defined |-> TRUE, value |-> "Hello world."]}
NoContentValue == [defined |-> FALSE, value |-> ""]

\* Strings that are searched are sequences of characters.
Timeout == <<"t","i","m","e","o","u","t">>
RateLimit == <<"r","a","t","e"," ","l","i","m","i","t">>
Connection == <<"c","o","n","n","e","c","t","i","o","n">>
NoSuggestion == <<"N","o"," ","s","u","g","g","e","s","t","i","o","n"," ",
                  "g","e","n","e","r","a","t","e","d">>
NoFormatted == <<"N","o"," ","f","o","r","m","a","t","t","e","d"," ",
                 "t","e","x","t"," ","g","e","n","e","r","a","t","e","d">>

\* A caught value: an object whose `message` may be absent.  The catch
\* blocks read error.message?.includes(...), so they accept exactly that.
NoError == [thrown |-> FALSE, hasMessage |-> FALSE, message |-> <<>>]
ErrorWith(m) == [thrown |-> TRUE, hasMessage |-> TRUE, message |-> m]
ErrorWithoutMessage == [thrown |-> TRUE, hasMessage |-> FALSE, message |-> <<>>]

\* What the provider call may reject with.
ProviderErrors ==
  { ErrorWith(<<"s","o","c","k","e","t"," ","t","i","m","e","o","u","t">>),
    ErrorWith(<<"r","a","t","e"," ","l","i","m","i","t"," ","r","e","a","c","h","e","d">>),
    ErrorWith(<<"c","o","n","n","e","c","t","i","o","n"," ","r","e","s","e","t">>),
    ErrorWith(<<"C","o","n","n","e","c","t","i","o","n"," ","e","r","r","o","r",".">>),
    ErrorWith(<<"R","e","q","u","e","s","t"," ","t","i","m","e","d"," ","o","u","t",".">>),
    ErrorWithoutMessage }

\* String.prototype.includes
Includes(s, sub) ==
  \E i \in 0..(Len(s) - Len(sub)) : SubSeq(s, i + 1, i + Len(sub)) = sub

\* A response: its status and the keys of its JSON body ("absent" for a key
\* the body does not have; the human-readable `message` and the timestamp
\* are left out), with the request it answers: the route, the text of the
\* body, whether the client was there at lines 81-84, the provider calls of
\* the handler run, the completion content and the error caught.
NoResponse ==
  [route |-> "none", text |-> Unread, hadClient |-> FALSE,
   called |-> 0, caught |-> NoError, content |-> NoContentValue,
   status |-> 0, error |-> "absent", retryable |-> "absent",
   suggestion |-> "absent", formattedText |-> "absent",
   server |-> "absent", aiService |-> "absent",
   aiError |-> [null |-> TRUE, attempts |-> 0]]

-----------------------------------------------------------------------------
(* The client lifecycle: lines 21-46 *)

\* (Faulty variants of the code, each defined before the definition it is a
\* variant of, show that a property depends on that code: the property fails
\* when the variant takes the definition's place.)
\* Variant of InitializeGroqOk: the key is not checked.
\* lines 23-25: `if (!process.env.GROQ_API_KEY) throw`; the throw is caught
\* at line 32 and initializeGroq returns false, otherwise it constructs the
\* client and returns true.
InitializeGroqNoKeyCheck == TRUE

InitializeGroqOk == apiKey

\* Variants of LoopGuard: `<=` for `<`, and the guard without `&& !groq`.
LoopGuardInclusive ==
  initializationAttempts <= MAX_INITIALIZATION_ATTEMPTS /\ groq = NoClient

LoopGuardCounterOnly == initializationAttempts < MAX_INITIALIZATION_ATTEMPTS

\* line 39: the guard of the retry loop
LoopGuard == initializationAttempts < MAX_INITIALIZATION_ATTEMPTS /\ groq = NoClient

\* Where a caller continues when initializeGroqWithRetry returns: the eager
\* call of line 48 is not awaited; a request continues at line 84 / 156.
ReturnPc(p) == IF p = Startup THEN "returned" ELSE "afterRetry"

\* lines 39-40, from the loop guard to the next suspension: the guard, the
\* synchronous call of initializeGroq (lines 21-36) and the `await` of its
\* value.
RetryLoopHead(p) ==
  IF LoopGuard
  THEN /\ groq' = IF InitializeGroqOk THEN constructed + 1 ELSE groq
       /\ constructed' = IF InitializeGroqOk THEN constructed + 1 ELSE constructed
       /\ initOk' = [initOk EXCEPT ![p] = InitializeGroqOk]
       /\ iters' = [iters EXCEPT ![p] = @ + 1]
       /\ pc' = [pc EXCEPT ![p] = "awaitInit"]
  ELSE /\ pc' = [pc EXCEPT ![p] = ReturnPc(p)]
       /\ UNCHANGED <<groq, constructed, initOk, iters>>

-----------------------------------------------------------------------------
(* The request handlers: lines 80-150 and 153-230 *)

\* Variant of Truthy: `text === undefined` for `!text`.
TruthyDefinedOnly(t) == t.defined

\* `!text` is false exactly for a non-empty string (lines 95, 167)
Truthy(t) == t.defined /\ t.length > 0

\* Variant of TextTooLong: `>=` for `>`.
TextTooLongInclusive(t) == t.length >= MaxTextLength

\* lines 102, 174
TextTooLong(t) == t.length > MaxTextLength

\* Variant of NoContent: `=== undefined` for `!`.
NoContentUndefinedOnly(c) == ~c.defined

\* `!suggestion` / `!formattedText` (lines 131, 212)
NoContent(c) == ~c.defined \/ c.value = ""

\* lines 132, 213: the error thrown for missing content
NoContentError(ep) ==
  IF ep = "suggest" THEN ErrorWith(NoSuggestion) ELSE ErrorWith(NoFormatted)

\* error.message?.includes(sub): undefined when message is undefined
JsIncludes(e, sub) ==
  IF ~e.hasMessage THEN "undefined"
  ELSE IF Includes(e.message, sub) THEN "true" ELSE "false"

\* a || b
JsOr(a, b) == IF a = "true" THEN a ELSE b

\* lines 140-142 and 220-222
IsRetryableError(e) ==
  JsOr(JsOr(JsIncludes(e, Timeout), JsIncludes(e, RateLimit)),
       JsIncludes(e, Connection))

\* JSON.stringify leaves out a key whose value is undefined
JsonField(v) == IF v = "undefined" THEN "absent" ELSE v

\* What every response to request r records of the request
Answer(r, ep, t) ==
  [NoResponse EXCEPT !.route = ep, !.text = t,
     !.hadClient = (groq # NoClient), !.called = calls[r]]

\* lines 85-88 and 157-160
Unavailable(r, ep, t) ==
  [Answer(r, ep, t) EXCEPT !.status = 503, !.error = "AI service unavailable"]

\* lines 96-99 and 168-171
MissingText(r, ep, t) ==
  [Answer(r, ep, t) EXCEPT !.status = 400, !.error = "Missing text"]

\* lines 103-106 and 175-178
TooLong(r, ep, t) ==
  [Answer(r, ep, t) EXCEPT !.status = 400, !.error = "Text too long"]

\* lines 135 and 216: res.json({ suggestion }) / res.json({ formattedText })
Success(r, ep, t, c) ==
  [Answer(r, ep, t) EXCEPT !.content = c, !.status = 200,
     !.suggestion = IF ep = "suggest" THEN c.value ELSE "absent",
     !.formattedText = IF ep = "format" THEN c.value ELSE "absent"]

\* lines 136-149 and 217-229: the catch block
Failure(r, ep, t, c, e) ==
  [Answer(r, ep, t) EXCEPT !.content = c, !.caught = e,
     !.status = IF IsRetryableError(e) = "true" THEN 503 ELSE 500,
     !.error = "AI service error",
     !.retryable = JsonField(IsRetryableError(e))]

\* res.status(..).json(..) and the end of the handler: the response goes
\* out, the handler run is over and its locals are gone.
Respond(r, response) ==
  /\ last' = response
  /\ sent' = [sent EXCEPT ![r] = @ + 1]
  /\ pc' = [pc EXCEPT ![r] = "done"]
  /\ text' = [text EXCEPT ![r] = Unread]
  /\ iters' = [iters EXCEPT ![r] = 0]
  /\ calls' = [calls EXCEPT ![r] = 0]

\* lines 92-127 and 164-208: the body is read, validated and, when valid,
\* handed to the provider; the handler then awaits the completion.  The body
\* is an input of the request; the handler first reads it here.
TryBlock(r) ==
  \E t \in Texts :
    IF ~Truthy(t) THEN \E ep \in Endpoints : Respond(r, MissingText(r, ep, t))
    ELSE IF TextTooLong(t) THEN \E ep \in Endpoints : Respond(r, TooLong(r, ep, t))
    ELSE /\ calls' = [calls EXCEPT ![r] = @ + 1]
         /\ text' = [text EXCEPT ![r] = t]
         /\ pc' = [pc EXCEPT ![r] = "awaitProvider"]
         /\ UNCHANGED <<last, sent, iters>>

\* Variant of HealthStatus: aiError names the cap, not the counter.
HealthStatusFixedCount ==
  [NoResponse EXCEPT !.route = "health", !.status = 200,
     !.server = "healthy",
     !.aiService = IF groq # NoClient THEN "available" ELSE "unavailable",
     !.aiError = IF groq = NoClient
                 THEN [null |-> FALSE, attempts |-> MAX_INITIALIZATION_ATTEMPTS]
                 ELSE [null |-> TRUE, attempts |-> 0]]

\* lines 69-74: the status object of /health
HealthStatus ==
  [NoResponse EXCEPT !.route = "health", !.status = 200,
     !.server = "healthy",
     !.aiService = IF groq # NoClient THEN "available" ELSE "unavailable",
     !.aiError = IF groq = NoClient
                 THEN [null |-> FALSE, attempts |-> initializationAttempts]
                 ELSE [null |-> TRUE, attempts |-> 0]]

-----------------------------------------------------------------------------
(* Actions *)

\* A continuation is ready: the awaited value of line 40 or the return of
\* initializeGroqWithRetry awaited at lines 83 / 155.  Ready continuations
\* run before the next callback, in any order.
Ready(pcs) == \E p \in Procs : pcs[p] \in {"awaitInit", "afterRetry"}

\* The event loop after a callback or a continuation has run
Drain(pcs) == IF Ready(pcs) THEN "drain" ELSE "idle"

Init ==
  /\ groq = NoClient
  /\ initializationAttempts = 0
  /\ apiKey \in BOOLEAN
  /\ constructed = 0
  /\ listening = FALSE
  /\ turn = "idle"
  /\ pc = [p \in Procs |-> IF p = Startup THEN "main" ELSE "idle"]
  /\ initOk = [p \in Procs |-> FALSE]
  /\ timer = 0
  /\ iters = [p \in Procs |-> 0]
  /\ text = [r \in Reqs |-> Unread]
  /\ calls = [r \in Reqs |-> 0]
  /\ sent = [r \in Reqs |-> 0]
  /\ last = NoResponse

\* line 48: the module body calls initializeGroqWithRetry without awaiting
\* it; the call runs to its first suspension and the module body goes on.
Main ==
  /\ pc[Startup] = "main"
  /\ RetryLoopHead(Startup)
  /\ turn' = Drain(pc')
  /\ UNCHANGED <<initializationAttempts, apiKey, listening, timer,
                 text, calls, sent, last>>

\* lines 247-254: the server listens.  The listen callback is a callback of
\* the event loop, so it runs after the module body and after the ready
\* continuation of the eager call.
Listen ==
  /\ ~listening
  /\ pc[Startup] # "main"
  /\ turn = "idle"
  /\ listening' = TRUE
  /\ UNCHANGED <<groq, initializationAttempts, apiKey, constructed, turn,
                 pc, initOk, timer, iters, text, calls, sent, last>>

\* lines 40-44: the awaited value of initializeGroq() arrives; on true the
\* loop breaks, on false the counter is raised and the backoff timer is set.
ResumeInit(p) ==
  /\ pc[p] = "awaitInit"
  /\ IF initOk[p]
     THEN /\ pc' = [pc EXCEPT ![p] = ReturnPc(p)]
          /\ UNCHANGED <<initializationAttempts, timer>>
     ELSE /\ initializationAttempts' = initializationAttempts + 1
          /\ timer' = BackoffUnit * (initializationAttempts + 1)
          /\ pc' = [pc EXCEPT ![p] = "backoff"]
  /\ turn' = Drain(pc')
  /\ UNCHANGED <<groq, apiKey, constructed, listening, initOk, iters,
                 text, calls, sent, last>>

\* Variant of TimerResolves: the promise of line 44 is never resolved.
TimerNeverResolves(p) == FALSE

\* line 44: setTimeout calls resolve when the delay is over
TimerResolves(p) == pc[p] = "backoff"

\* lines 44, 39-40: the timer callback resolves the promise and the loop
\* goes round
BackoffElapses(p) ==
  /\ TimerResolves(p)
  /\ turn = "idle"
  /\ RetryLoopHead(p)
  /\ turn' = Drain(pc')
  /\ UNCHANGED <<initializationAttempts, apiKey, listening, timer,
                 text, calls, sent, last>>

\* lines 80-83 (153-155): a request arrives (requests are numbered in the
\* order they arrive in).  With a client it goes straight to the try block;
\* without one it calls initializeGroqWithRetry.  The two routes run the
\* same code up to the texts of their responses, so the route is drawn where
\* a response is built.
Start(r) ==
  /\ listening
  /\ turn \in {"idle", "requests"}
  /\ pc[r] = "idle"
  /\ r = 1 \/ pc[r - 1] # "idle"
  /\ IF groq # NoClient
     THEN /\ TryBlock(r)
          /\ UNCHANGED <<groq, constructed, initOk>>
     ELSE /\ RetryLoopHead(r)
          /\ UNCHANGED <<text, calls, sent, last>>
  /\ turn' = IF Ready(pc') THEN "requests" ELSE "idle"
  /\ UNCHANGED <<initializationAttempts, apiKey, listening, timer>>

\* lines 84-90 (156-162): initializeGroqWithRetry has returned; without a
\* client the request is answered 503, with one it enters the try block.
AfterRetry(r) ==
  /\ pc[r] = "afterRetry"
  /\ IF groq = NoClient
     THEN \E ep \in Endpoints, t \in Texts : Respond(r, Unavailable(r, ep, t))
     ELSE TryBlock(r)
  /\ turn' = Drain(pc')
  /\ UNCHANGED <<groq, initializationAttempts, apiKey, constructed,
                 listening, initOk, timer>>

\* lines 129-135 (210-216): the provider call resolves with a completion.
\* Missing or empty content throws into the catch block.
ProviderResolves(r) ==
  /\ pc[r] = "awaitProvider"
  /\ turn = "idle"
  /\ \E ep \in Endpoints, c \in Contents :
       IF NoContent(c)
       THEN Respond(r, Failure(r, ep, text[r], c, NoContentError(ep)))
       ELSE Respond(r, Success(r, ep, text[r], c))
  /\ UNCHANGED <<groq, initializationAttempts, apiKey, constructed,
                 listening, turn, initOk, timer>>

\* lines 136-149 (217-229): the provider call rejects
ProviderRejects(r) ==
  /\ pc[r] = "awaitProvider"
  /\ turn = "idle"
  /\ \E ep \in Endpoints, e \in ProviderErrors :
       Respond(r, Failure(r, ep, text[r], NoContentValue, e))
  /\ UNCHANGED <<groq, initializationAttempts, apiKey, constructed,
                 listening, turn, initOk, timer>>

\* lines 68-77: GET /health, a synchronous handler
Health ==
  /\ listening
  /\ turn \in {"idle", "requests"}
  /\ last' = HealthStatus
  /\ UNCHANGED <<groq, initializationAttempts, apiKey, constructed,
                 listening, turn, pc, initOk, timer, iters, text, calls,
                 sent>>

\* The environment: line 23 reads process.env.GROQ_API_KEY anew at every
\* call of initializeGroq, so a key that was missing at one call may be
\* there at a later one.  A key that is there stays, so `~apiKey` says that
\* the key has never been configured.
EnvSetsKey ==
  /\ ~apiKey
  /\ turn = "idle"
  /\ apiKey' = TRUE
  /\ UNCHANGED <<groq, initializationAttempts, constructed, listening, turn, pc,
                 initOk, timer, iters, text, calls, sent, last>>

Next ==
  \/ Main
  \/ Listen
  \/ \E p \in Procs : ResumeInit(p)
  \/ \E p \in Procs : BackoffElapses(p)
  \/ \E r \in Reqs : Start(r)
  \/ \E r \in Reqs : AfterRetry(r)
  \/ \E r \in Reqs : ProviderResolves(r)
  \/ \E r \in Reqs : ProviderRejects(r)
  \/ Health
  \/ EnvSetsKey

Spec == Init /\ [][Next]_vars

\* What the event loop and the provider do without a new request: ready
\* continuations run, set timers fire, and the provider call settles (its
\* client has a 30 s timeout).
Continue ==
  \/ Main
  \/ \E p \in Procs : ResumeInit(p) \/ BackoffElapses(p)
  \/ \E r \in Reqs : AfterRetry(r) \/ ProviderResolves(r) \/ ProviderRejects(r)

\* The event loop does not stop while it has something to run.
Fairness == WF_vars(Continue)

LiveSpec == Spec /\ Fairness

-----------------------------------------------------------------------------
(* Properties *)

Answered == last.route \in Endpoints

\* C1: the first failing check decides the response of suggest and format:
\* no client after the retry pass gives 503 "AI service unavailable" whatever
\* the body; else a missing or empty text gives 400 "Missing text"; else a
\* text longer than 32000 gives 400 "Text too long"; a text of 1..32000
\* characters reaches the provider call.
C1_ValidationOrder ==
  Answered =>
    LET t == last.text
        nonEmpty == t.defined /\ t.length > 0
    IN  /\ ~last.hadClient =>
             last.status = 503 /\ last.error = "AI service unavailable"
        /\ (last.hadClient /\ ~nonEmpty) =>
             last.status = 400 /\ last.error = "Missing text"
        /\ (last.hadClient /\ nonEmpty /\ t.length > 32000) =>
             last.status = 400 /\ last.error = "Text too long"
        /\ (last.hadClient /\ nonEmpty /\ t.length <= 32000) =>
             /\ last.called = 1
             /\ last.status # 400
             /\ last.error # "AI service unavailable"

\* C1 witness: a text of exactly 32000 characters is at the provider after
\* a retry pass, and a text of 32001 characters was answered 400.
C1_Witness ==
  /\ \E r \in Reqs :
       pc[r] = "awaitProvider" /\ text[r].length = 32000 /\ iters[r] >= 1
  /\ Answered /\ last.error = "Text too long" /\ last.text.length = 32001

\* C2 (as claimed): every error caught by suggest/format is answered 503
\* with retryable true when its message contains "timeout", "rate limit" or
\* "connection", else 500 with retryable false; the body has error
\* "AI service error" and a boolean retryable, true exactly for 503.
C2_ErrorClassification ==
  (Answered /\ last.caught.thrown) =>
    LET m == last.caught.message
        matches == Includes(m, Timeout) \/ Includes(m, RateLimit)
                     \/ Includes(m, Connection)
    IN  /\ last.error = "AI service error"
        /\ last.status = IF matches THEN 503 ELSE 500
        /\ last.retryable \in {"true", "false"}
        /\ last.retryable = "true" <=> last.status = 503

\* C3 (as claimed): the attempt counter never decreases and never exceeds
\* 3, and the failure that raises it to k sets a timer of 1000*k ms for the
\* caller.
C3_BoundedAttempts ==
  [][ /\ initializationAttempts' >= initializationAttempts
      /\ initializationAttempts' <= 3
      /\ initializationAttempts' # initializationAttempts =>
           /\ timer' = 1000 * initializationAttempts'
           /\ \E p \in Procs : pc[p] = "awaitInit" /\ pc'[p] = "backoff" ]_vars

\* C4: once the counter has reached 3 with no client, initializeGroq is
\* never called again, no client is ever constructed (also when the key is
\* there by now), and every suggest/format response from then on is 503
\* "AI service unavailable".
C4_NoRetryAfterCap ==
  [][ (initializationAttempts >= 3 /\ groq = NoClient) =>
        /\ groq' = NoClient
        /\ constructed' = constructed
        /\ \A p \in Procs : pc'[p] = "awaitInit" => pc[p] = "awaitInit"
        /\ \A r \in Reqs : sent'[r] > sent[r] =>
             last'.status = 503 /\ last'.error = "AI service unavailable" ]_vars

\* C4 witness: the cap is reached without a client, the key is there now,
\* and a request has been answered 503.
C4_Witness ==
  /\ initializationAttempts >= 3 /\ groq = NoClient /\ apiKey
  /\ Answered /\ last.status = 503

\* C5: every /health response is 200, says "available" exactly when the
\* client is there, has aiError null exactly when the client is there, and
\* otherwise reports the current attempt counter.
C5_Health ==
  [][ (last' # last /\ last'.route = "health") =>
        /\ last'.status = 200
        /\ last'.server = "healthy"
        /\ last'.aiService = (IF groq' # NoClient THEN "available" ELSE "unavailable")
        /\ last'.aiError.null <=> groq' # NoClient
        /\ groq' = NoClient => last'.aiError.attempts = initializationAttempts' ]_vars

\* C5 witness: health answered "unavailable" after a failed attempt while a
\* request waits in backoff.
C5_Witness ==
  /\ last.route = "health" /\ last.aiService = "unavailable"
  /\ last.aiError.attempts >= 1
  /\ \E r \in Reqs : pc[r] = "backoff"

\* C6: while the key has never been configured there is no client, health
\* says "unavailable" with a non-null aiError, and every suggest/format
\* response is 503.
C6_NoKeyNoClient ==
  ~apiKey =>
    /\ groq = NoClient
    /\ constructed = 0
    /\ last.route = "health" =>
         last.aiService = "unavailable" /\ ~last.aiError.null
    /\ Answered => last.status = 503

\* C6 witness: without a key a request has been answered (503) after the
\* counter was raised.
C6_Witness ==
  ~apiKey /\ Answered /\ last.status = 503 /\ initializationAttempts >= 1

\* C7: a suggest/format response is 200 exactly when the client was there,
\* the text was valid and the provider returned non-empty content; its body
\* is then exactly {suggestion: content} resp. {formattedText: content}.
C7_SuccessBody ==
  Answered =>
    LET t == last.text
        valid == t.defined /\ t.length > 0 /\ t.length <= 32000
        c == last.content
    IN  /\ last.status = 200 <=>
             (last.hadClient /\ valid /\ c.defined /\ c.value # "")
        /\ last.status = 200 =>
             /\ last.error = "absent" /\ last.retryable = "absent"
             /\ last.route = "suggest" =>
                  last.suggestion = c.value /\ last.formattedText = "absent"
             /\ last.route = "format" =>
                  last.formattedText = c.value /\ last.suggestion = "absent"

\* C7 witness: a format request answered 200 with the provider's content.
C7_Witness ==
  /\ last.route = "format" /\ last.status = 200
  /\ last.formattedText = "Hello world."

\* C8: the client is constructed at most once and, once there, the handle
\* stays the one that was constructed.
C8_SingleClient == constructed <= 1 /\ groq = constructed

\* C8 witness: the client is there while two requests are in the retry
\* pass they entered without one, after a failed attempt.
C8_Witness ==
  /\ groq # NoClient /\ initializationAttempts >= 1
  /\ \E r1, r2 \in Reqs :
       /\ r1 # r2
       /\ pc[r1] \in {"awaitInit", "backoff"}
       /\ pc[r2] \in {"awaitInit", "backoff"}

C10_ProviderCalls ==
  /\ [](\A r \in Reqs :
          /\ calls[r] <= 1
          /\ calls[r] = 1 <=> pc[r] = "awaitProvider"
          /\ pc[r] = "awaitProvider" =>
               /\ groq # NoClient
               /\ text[r].defined /\ text[r].length > 0 /\ text[r].length <= 32000)
  /\ []((Answered /\ (last.status = 400 \/ last.error = "AI service unavailable"))
          => last.called = 0)
  /\ [][ /\ (last' # last /\ last'.route = "health") => calls' = calls
         /\ \A r \in Reqs :
              (/\ pc'[r] # pc[r]
               /\ \/ pc[r] = "idle" /\ groq # NoClient
                  \/ pc[r] = "awaitProvider")
              => groq' = groq /\ initializationAttempts' = initializationAttempts
       ]_vars

\* C10 witness: with the client there from the start a request is at the
\* provider, and another was answered 400 without a call.
C10_Witness ==
  /\ initializationAttempts = 0
  /\ \E r \in Reqs : pc[r] = "awaitProvider" /\ calls[r] = 1
  /\ Answered /\ last.status = 400 /\ last.called = 0

=============================================================================
